---- MODULE Spec2Model ----
(***************************************************************************)
(* LateNightCart (src/app.py): a Flask application over one SQLite file.   *)
(*                                                                         *)
(* The state is the relational store (the user, snack and order tables),   *)
(* one signed session cookie per client and, for every client, the request *)
(* it has in flight.  Flask serves requests concurrently and every request *)
(* works on its own SQLAlchemy session: the rows a handler has loaded are  *)
(* a private snapshot, and nothing is written before db.session.commit().  *)
(* The sqlite3 driver opens a transaction only before the first INSERT,    *)
(* UPDATE or DELETE, so a handler's SELECTs hold no lock: other requests   *)
(* may commit between a handler's read and its commit.  A commit itself    *)
(* (its UPDATEs, INSERTs and DELETEs) is one atomic step.  A flush writes  *)
(* only the columns whose value differs from the loaded one, and an UPDATE *)
(* that finds no row raises (StaleDataError), which aborts the commit.     *)
(*                                                                         *)
(* The columns name, price, image_url, buyer_name, room_number and         *)
(* order_time are never read by a condition of the code and are left out.  *)
(***************************************************************************)
EXTENDS Integers, Sequences, FiniteSets, TLC

VARIABLES
    users,      \* table user:  the rows [username, password_hash, role], in id order
    snacks,     \* table snack: id -> [quantity, is_available]
    orders,     \* table order: id (1..Len) -> [snack_id, quantity_ordered, status]
    session,    \* per client: the Flask session cookie (logged_in, username, role)
    req,        \* per client: the request in flight (position and loaded rows)
    flashed,    \* the last response: the message it flashed, or its abort code
    location    \* the last response: the endpoint it redirects to

vars == <<users, snacks, orders, session, req, flashed, location>>

(***************************************************************************)
(* Bounds of the model and the inputs the requests are drawn from.         *)
(***************************************************************************)
MaxSnackId == 4
MaxOrders == 2

Clients == {"c1", "c2"}

\* the <int:snack_id> of the URLs requested
RequestedSnackIds == {1}

\* request.form values are text
OrderQuantities == {"abc", "-1", "0", "8", "16"}
\* a second size of order, for the specification of the order path alone
SmallOrderQuantities == {"1"}
SnackQuantities == {"abc", "-1", "8"}
RegisterNames == {"alice"}
RegisterRooms == {"101"}
RegisterPasswords == {"pw"}
LoginNames == {"admin", "alice-101", "bob-7"}
LoginPasswords == {"cvr_admin123", "pw"}

OrderIds == 1..MaxOrders

(***************************************************************************)
(* Credentials                                                             *)
(***************************************************************************)
generate_password_hash(password) == <<"hash", password>>

\* a check that accepts whatever is submitted for a stored user
check_password_any(user, password) == user.password_hash[1] = "hash"

check_password(user, password) == user.password_hash = generate_password_hash(password)

User(username, password_hash, role) ==
    [username |-> username, password_hash |-> password_hash, role |-> role]

default_admin == User("admin", generate_password_hash("cvr_admin123"), "admin")

(***************************************************************************)
(* The session cookie.  Absent stands for a key that is not in the         *)
(* session dictionary.                                                     *)
(***************************************************************************)
Absent == "<absent>"

EmptySession == [logged_in |-> Absent, username |-> Absent, role |-> Absent]

login_required(c) == session[c].logged_in # Absent

\* a gate that tests the login flag where the code tests the role
admin_required_logged_in(c) == session[c].logged_in # Absent

admin_required(c) == session[c].role # Absent /\ session[c].role = "admin"

(***************************************************************************)
(* Rows                                                                    *)
(***************************************************************************)
\* Snack(...): is_available defaults to True
sample_snacks ==
    <<[quantity |-> 15, is_available |-> TRUE],
      [quantity |-> 8,  is_available |-> TRUE],
      [quantity |-> 0,  is_available |-> FALSE]>>

\* Order(...): status defaults to 'Pending'
Order(snack_id, quantity_ordered) ==
    [snack_id |-> snack_id, quantity_ordered |-> quantity_ordered, status |-> "Pending"]

\* INTEGER PRIMARY KEY without AUTOINCREMENT: SQLite gives max(rowid) + 1
NextSnackId == IF DOMAIN snacks = {} THEN 1
               ELSE (CHOOSE m \in DOMAIN snacks : \A i \in DOMAIN snacks : i <= m) + 1

Idle == [pc |-> "idle", snack_id |-> 0, quantity |-> 0, is_available |-> FALSE,
         username |-> Absent]

Loaded(pc, snack_id) ==
    [pc |-> pc, snack_id |-> snack_id, quantity |-> snacks[snack_id].quantity,
     is_available |-> snacks[snack_id].is_available, username |-> Absent]

\* the response ends the request; flash(message) leaves its message
\* and redirect(url_for(endpoint)) its target; an abort redirects nowhere
Respond(c, message, endpoint) ==
    /\ req' = [req EXCEPT ![c] = Idle]
    /\ flashed' = message
    /\ location' = endpoint

\* User.query.filter_by(username=username): the ids of the matching rows
filter_by(username) == {i \in 1..Len(users) : users[i].username = username}

\* .first(): the matching row of lowest id (None when there is none)
first(ids) == users[CHOOSE i \in ids : \A j \in ids : i <= j]

Init ==
    /\ users = <<default_admin>>
    /\ snacks = [i \in 1..3 |-> sample_snacks[i]]
    /\ orders = << >>
    /\ session = [c \in Clients |-> EmptySession]
    /\ req = [c \in Clients |-> Idle]
    /\ flashed = "none"
    /\ location = "none"

(***************************************************************************)
(* register, login, logout                                                 *)
(***************************************************************************)
\* lines 94-102: the duplicate check; the INSERT follows at the commit
register_check(c) ==
    /\ req[c].pc = "idle"
    /\ \E username \in RegisterNames, room_number \in RegisterRooms :
         LET full_username == username \o "-" \o room_number IN
         IF filter_by(full_username) # {}
         THEN /\ Respond(c, "Username already exists. Please choose another.", "register")
              /\ UNCHANGED <<users, snacks, orders, session>>
         ELSE /\ req' = [req EXCEPT ![c] =
                            [Idle EXCEPT !.pc = "register", !.username = full_username]]
              /\ UNCHANGED <<users, snacks, orders, session, flashed, location>>

\* lines 104-111 with the role taken to be the admin's
register_commit_as_admin(c) ==
    /\ req[c].pc = "register"
    /\ \E password \in RegisterPasswords :
         IF filter_by(req[c].username) # {}
         THEN /\ Respond(c, "500", "none")
              /\ UNCHANGED <<users, snacks, orders, session>>
         ELSE /\ users' = Append(users, User(req[c].username,
                                             generate_password_hash(password),
                                             "admin"))
              /\ Respond(c, "Registration successful! Please log in.", "login")
              /\ UNCHANGED <<snacks, orders, session>>

\* lines 104-111 over a table whose username column is not UNIQUE
register_commit_not_unique(c) ==
    /\ req[c].pc = "register"
    /\ \E password \in RegisterPasswords :
         /\ users' = Append(users, User(req[c].username,
                                        generate_password_hash(password),
                                        "student"))
         /\ Respond(c, "Registration successful! Please log in.", "login")
         /\ UNCHANGED <<snacks, orders, session>>

\* lines 104-111: username is UNIQUE, a second INSERT of it aborts the commit
register_commit(c) ==
    /\ req[c].pc = "register"
    /\ \E password \in RegisterPasswords :
         IF filter_by(req[c].username) # {}
         THEN /\ Respond(c, "500", "none")
              /\ UNCHANGED <<users, snacks, orders, session>>
         ELSE /\ users' = Append(users, User(req[c].username,
                                             generate_password_hash(password),
                                             "student"))
              /\ Respond(c, "Registration successful! Please log in.", "login")
              /\ UNCHANGED <<snacks, orders, session>>

\* lines 117-135 with a failure branch that tells an unknown username apart
login_post_naming_unknown(c, username, password) ==
    LET found == filter_by(username) IN
    IF found # {} /\ check_password(first(found), password)
    THEN LET user == first(found) IN
         /\ session' = [session EXCEPT ![c] =
                           [logged_in |-> "True", username |-> user.username,
                            role |-> user.role]]
         /\ Respond(c, "Welcome",
                    IF user.role = "admin" THEN "admin_dashboard" ELSE "snacks")
         /\ UNCHANGED <<users, snacks, orders>>
    ELSE /\ Respond(c, IF found = {} THEN "Unknown username."
                                     ELSE "Login failed. Check your username and password.",
                    "login")
         /\ UNCHANGED <<users, snacks, orders, session>>

\* lines 117-135: the POST branch for one submitted form
login_post(c, username, password) ==
    LET found == filter_by(username) IN
    IF found # {} /\ check_password(first(found), password)
    THEN LET user == first(found) IN
         /\ session' = [session EXCEPT ![c] =
                           [logged_in |-> "True", username |-> user.username,
                            role |-> user.role]]
         /\ Respond(c, "Welcome",
                    IF user.role = "admin" THEN "admin_dashboard" ELSE "snacks")
         /\ UNCHANGED <<users, snacks, orders>>
    ELSE /\ Respond(c, "Login failed. Check your username and password.", "login")
         /\ UNCHANGED <<users, snacks, orders, session>>

login(c) ==
    /\ req[c].pc = "idle"
    /\ \E username \in LoginNames, password \in LoginPasswords :
         login_post(c, username, password)

\* a logout that pops logged_in and leaves username and role in the session
logout_keeping_role(c) ==
    /\ req[c].pc = "idle"
    /\ session' = [session EXCEPT ![c].logged_in = Absent]
    /\ Respond(c, "You have been logged out.", "home")
    /\ UNCHANGED <<users, snacks, orders>>

logout(c) ==
    /\ req[c].pc = "idle"
    /\ session' = [session EXCEPT ![c] = EmptySession]
    /\ Respond(c, "You have been logged out.", "home")
    /\ UNCHANGED <<users, snacks, orders>>

\* the decorators' refusals
login_refused(c) ==
    /\ req[c].pc = "idle"
    /\ ~login_required(c)
    /\ Respond(c, "Please log in to access this page.", "login")
    /\ UNCHANGED <<users, snacks, orders, session>>

admin_refused(c) ==
    /\ req[c].pc = "idle"
    /\ ~admin_required(c)
    /\ Respond(c, "Access Denied: Admin privileges required.", "snacks")
    /\ UNCHANGED <<users, snacks, orders, session>>

\* Snack.query.get_or_404 / Order.query.get_or_404 on a missing row
not_found(c) ==
    /\ req[c].pc = "idle"
    /\ \/ /\ login_required(c)
          /\ \E snack_id \in RequestedSnackIds : snack_id \notin DOMAIN snacks
       \/ /\ admin_required(c)
          /\ \/ \E snack_id \in RequestedSnackIds : snack_id \notin DOMAIN snacks
             \/ \E order_id \in OrderIds : order_id > Len(orders)
    /\ Respond(c, "404", "none")
    /\ UNCHANGED <<users, snacks, orders, session>>

(***************************************************************************)
(* order (lines 154-194)                                                   *)
(***************************************************************************)
\* line 157: the snack is read into the request's own session
order_load(c) ==
    /\ req[c].pc = "idle"
    /\ login_required(c)
    /\ \E snack_id \in RequestedSnackIds \cap DOMAIN snacks :
         req' = [req EXCEPT ![c] = Loaded("order", snack_id)]
    /\ UNCHANGED <<users, snacks, orders, session, flashed, location>>

\* int(text): the decimal numerals among the form values, ValueError on the rest
Numerals ==
    ("-1" :> -1) @@ ("0" :> 0) @@ ("1" :> 1) @@ ("8" :> 8) @@ ("16" :> 16)

IsInt(text) == text \in DOMAIN Numerals

int(text) == Numerals[text]

\* line 169, on the loaded row
QuantityRejected(quantity_ordered, snack) ==
    quantity_ordered <= 0 \/ quantity_ordered > snack.quantity

\* order_refuse with the order row added and committed before the form is validated
order_refuse_after_insert(c, message) ==
    /\ Respond(c, message, "order")
    /\ orders' = Append(orders, Order(req[c].snack_id, 0))
    /\ UNCHANGED <<users, snacks, session>>

\* lines 165-167 and 169-171: the request is refused before anything is written
order_refuse(c, message) ==
    /\ Respond(c, message, "order")
    /\ UNCHANGED <<users, snacks, orders, session>>

\* lines 180-182 on the loaded row, then the flush: UPDATE snack SET the changed
\* columns WHERE id = snack_id
DecrementedRow(row, snack, quantity_ordered) ==
    LET quantity == snack.quantity - quantity_ordered
        is_available == IF quantity = 0 THEN FALSE ELSE snack.is_available
    IN  [quantity |-> quantity,
         is_available |-> IF is_available # snack.is_available
                          THEN is_available ELSE row.is_available]

\* lines 173-188: the UPDATE and the INSERT of one commit
order_commit(c, quantity_ordered) ==
    /\ req[c].snack_id \in DOMAIN snacks
    /\ Len(orders) < MaxOrders
    /\ snacks' = [snacks EXCEPT ![req[c].snack_id] =
                     DecrementedRow(@, req[c], quantity_ordered)]
    /\ orders' = Append(orders, Order(req[c].snack_id, quantity_ordered))
    /\ Respond(c, "Success! Order placed", "snacks")
    /\ UNCHANGED <<users, session>>

\* lines 189-192: the UPDATE found no row, the commit is rolled back
order_rollback(c) ==
    /\ req[c].snack_id \notin DOMAIN snacks
    /\ Respond(c, "There was an issue processing your order.", "snacks")
    /\ UNCHANGED <<users, snacks, orders, session>>

\* lines 161-192 for a form whose quantity is one of the given texts
order_form(c, quantities) ==
    /\ req[c].pc = "order"
    /\ \E quantity \in quantities :
         \/ /\ ~IsInt(quantity)
            /\ order_refuse(c, "Invalid quantity.")
         \/ /\ IsInt(quantity)
            /\ QuantityRejected(int(quantity), req[c])
            /\ order_refuse(c, "Invalid quantity selected or quantity exceeds stock.")
         \/ /\ IsInt(quantity)
            /\ ~QuantityRejected(int(quantity), req[c])
            /\ \/ order_commit(c, int(quantity))
               \/ order_rollback(c)

order_post(c) == order_form(c, OrderQuantities)

(***************************************************************************)
(* complete_order (lines 205-212)                                          *)
(***************************************************************************)
\* Completed as a toggle of the status
Toggled(order_to_complete) ==
    [order_to_complete EXCEPT
        !.status = IF @ = "Pending" THEN "Completed" ELSE "Pending"]

\* line 209
Completed(order_to_complete) == [order_to_complete EXCEPT !.status = "Completed"]

complete_order(c) ==
    /\ req[c].pc = "idle"
    /\ admin_required(c)
    /\ \E order_id \in DOMAIN orders :
         orders' = [orders EXCEPT ![order_id] = Completed(@)]
    /\ Respond(c, "Order completed!", "admin_dashboard")
    /\ UNCHANGED <<users, snacks, session>>

(***************************************************************************)
(* manage_snack (lines 214-247)                                            *)
(***************************************************************************)
\* line 242
Availability(quantity) == IF quantity > 0 THEN TRUE ELSE FALSE

\* lines 231-234 and 242-244, snack_id is None: INSERT
manage_snack_create(c) ==
    /\ req[c].pc = "idle"
    /\ admin_required(c)
    /\ NextSnackId <= MaxSnackId
    /\ \E quantity \in SnackQuantities :
         /\ IsInt(quantity)
         /\ snacks' = [i \in DOMAIN snacks \cup {NextSnackId} |->
                          IF i = NextSnackId
                          THEN [quantity |-> int(quantity),
                                is_available |-> Availability(int(quantity))]
                          ELSE snacks[i]]
    /\ Respond(c, "New snack added successfully.", "admin_dashboard")
    /\ UNCHANGED <<users, orders, session>>

\* line 222
manage_snack_load(c) ==
    /\ req[c].pc = "idle"
    /\ admin_required(c)
    /\ \E snack_id \in RequestedSnackIds \cap DOMAIN snacks :
         req' = [req EXCEPT ![c] = Loaded("manage", snack_id)]
    /\ UNCHANGED <<users, snacks, orders, session, flashed, location>>

\* lines 238 and 242 on the loaded row, then the flush of the changed columns
EditedRow(row, snack, quantity) ==
    [quantity |-> IF quantity # snack.quantity THEN quantity ELSE row.quantity,
     is_available |-> IF Availability(quantity) # snack.is_available
                      THEN Availability(quantity) ELSE row.is_available]

\* the flush emits no UPDATE when no column differs from the loaded row
Unchanged(snack, quantity) ==
    quantity = snack.quantity /\ Availability(quantity) = snack.is_available

\* lines 236-245: UPDATE snack SET the changed columns WHERE id = snack_id, COMMIT
manage_snack_update(c, quantity) ==
    /\ req[c].snack_id \in DOMAIN snacks
    /\ snacks' = [snacks EXCEPT ![req[c].snack_id] = EditedRow(@, req[c], quantity)]
    /\ Respond(c, "Snack updated successfully.", "admin_dashboard")
    /\ UNCHANGED <<users, orders, session>>

\* lines 236-245 with the row deleted meanwhile and nothing to write
manage_snack_noop(c, quantity) ==
    /\ req[c].snack_id \notin DOMAIN snacks
    /\ Unchanged(req[c], quantity)
    /\ Respond(c, "Snack updated successfully.", "admin_dashboard")
    /\ UNCHANGED <<users, snacks, orders, session>>

\* an uncaught exception: float() or int() on the form, or a statement of the
\* commit failing; the request's transaction is rolled back
server_error(c) ==
    /\ Respond(c, "500", "none")
    /\ UNCHANGED <<users, snacks, orders, session>>

manage_snack_post(c) ==
    /\ req[c].pc = "manage"
    /\ \E quantity \in SnackQuantities :
         \/ /\ ~IsInt(quantity)
            /\ server_error(c)
         \/ /\ IsInt(quantity)
            /\ \/ manage_snack_update(c, int(quantity))
               \/ manage_snack_noop(c, int(quantity))
               \/ /\ req[c].snack_id \notin DOMAIN snacks
                  /\ server_error(c)

manage_snack_bad_form(c) ==
    /\ req[c].pc = "idle"
    /\ admin_required(c)
    /\ \E quantity \in SnackQuantities : ~IsInt(quantity)
    /\ server_error(c)

(***************************************************************************)
(* delete_snack (lines 249-261)                                            *)
(***************************************************************************)
\* line 254
HasPendingOrder(snack_id) ==
    \E i \in DOMAIN orders : orders[i].snack_id = snack_id /\ orders[i].status = "Pending"

\* lines 252-256
delete_snack_check(c) ==
    /\ req[c].pc = "idle"
    /\ admin_required(c)
    /\ \E snack_id \in RequestedSnackIds \cap DOMAIN snacks :
         IF HasPendingOrder(snack_id)
         THEN /\ Respond(c, "Cannot delete: There are still pending orders!", "admin_dashboard")
              /\ UNCHANGED <<users, snacks, orders, session>>
         ELSE /\ req' = [req EXCEPT ![c] =
                            [Idle EXCEPT !.pc = "delete", !.snack_id = snack_id]]
              /\ UNCHANGED <<users, snacks, orders, session, flashed, location>>

\* Snack.orders (the backref of line 60, no delete cascade): the flush of a deleted
\* Snack loads the orders that reference it to set their snack_id to NULL
ReferencingOrders(snack_id) == {i \in DOMAIN orders : orders[i].snack_id = snack_id}

\* lines 258-259, the flush before its first statement: with an order to detach, the
\* UPDATE "order" SET snack_id = NULL breaks NOT NULL (line 53) and the commit raises
delete_snack_flush(c) ==
    /\ req[c].pc = "delete"
    /\ IF ReferencingOrders(req[c].snack_id) # {}
       THEN server_error(c)
       ELSE /\ req' = [req EXCEPT ![c].pc = "delete_commit"]
            /\ UNCHANGED <<users, snacks, orders, session, flashed, location>>

\* lines 258-260: DELETE FROM snack WHERE id = snack_id, COMMIT
delete_snack_commit(c) ==
    /\ req[c].pc = "delete_commit"
    /\ snacks' = [i \in DOMAIN snacks \ {req[c].snack_id} |-> snacks[i]]
    /\ Respond(c, "Snack successfully deleted.", "admin_dashboard")
    /\ UNCHANGED <<users, orders, session>>

\* the requests of the shop: everything but registration
ShopNext == \E c \in Clients :
    \/ login(c)
    \/ logout(c)
    \/ login_refused(c)
    \/ admin_refused(c)
    \/ not_found(c)
    \/ order_load(c)
    \/ order_post(c)
    \/ complete_order(c)
    \/ manage_snack_create(c)
    \/ manage_snack_load(c)
    \/ manage_snack_post(c)
    \/ manage_snack_bad_form(c)
    \/ delete_snack_check(c)
    \/ delete_snack_flush(c)
    \/ delete_snack_commit(c)

ShopSpec == Init /\ [][ShopNext]_vars

\* the shop with its catalogue left alone: no manage_snack, no delete_snack
OrderNext == \E c \in Clients :
    \/ login(c)
    \/ logout(c)
    \/ login_refused(c)
    \/ admin_refused(c)
    \/ not_found(c)
    \/ order_load(c)
    \/ order_form(c, OrderQuantities \cup SmallOrderQuantities)
    \/ complete_order(c)

OrderSpec == Init /\ [][OrderNext]_vars

Next ==
    \/ ShopNext
    \/ \E c \in Clients :
         \/ register_check(c)
         \/ register_commit(c)

Spec == Init /\ [][Next]_vars

\* the accounts alone: what login reads (the user table and the session)
\* in all the values the program gives it
AccountNext == \E c \in Clients :
    \/ register_check(c)
    \/ register_commit(c)
    \/ login(c)
    \/ logout(c)
    \/ login_refused(c)
    \/ admin_refused(c)

AccountSpec == Init /\ [][AccountNext]_vars

(***************************************************************************)
(* Properties                                                              *)
(***************************************************************************)
RECURSIVE OrderedUpTo(_, _)
\* the sum of quantity_ordered over the first n orders of a snack
OrderedUpTo(snack_id, n) ==
    IF n = 0 THEN 0
    ELSE OrderedUpTo(snack_id, n - 1) +
         (IF orders[n].snack_id = snack_id THEN orders[n].quantity_ordered ELSE 0)

Ordered(snack_id) == OrderedUpTo(snack_id, Len(orders))

\* the client whose request this step answers with a given message
Answers(c, pc, message) ==
    req[c].pc = pc /\ req'[c].pc = "idle" /\ flashed' = message

\* C1: with the catalogue left alone (OrderSpec), the orders placed against a
\* snack never add up to more than the stock it was seeded with.
C1_NoOversell ==
    \A snack_id \in DOMAIN snacks :
        Ordered(snack_id) <= sample_snacks[snack_id].quantity

\* C2: every snack's quantity is at least 0 in every reachable state.
C2_StockNonNegative ==
    \A snack_id \in DOMAIN snacks : snacks[snack_id].quantity >= 0

\* C3: every stored snack has is_available = (quantity > 0).
C3_AvailabilityFollowsQuantity ==
    \A snack_id \in DOMAIN snacks :
        snacks[snack_id].is_available = (snacks[snack_id].quantity > 0)

\* C4: a step of order's POST either leaves snacks and orders as they are, or
\* adds exactly one Pending order of quantity q and lowers the stored stock of
\* its snack by exactly q; and only such a step adds an order.
C4_OrderAllOrNothing ==
    [][/\ \A c \in Clients :
            (req[c].pc = "order" /\ req'[c].pc = "idle") =>
                \/ snacks' = snacks /\ orders' = orders
                \/ /\ Len(orders') = Len(orders) + 1
                   /\ SubSeq(orders', 1, Len(orders)) = orders
                   /\ LET new_order == orders'[Len(orders')] IN
                        /\ new_order.status = "Pending"
                        /\ new_order.snack_id = req[c].snack_id
                        /\ new_order.snack_id \in DOMAIN snacks
                        /\ DOMAIN snacks' = DOMAIN snacks
                        /\ \A i \in DOMAIN snacks :
                             snacks'[i].quantity =
                                 IF i = new_order.snack_id
                                 THEN snacks[i].quantity - new_order.quantity_ordered
                                 ELSE snacks[i].quantity
       /\ Len(orders') # Len(orders) =>
            \E c \in Clients : req[c].pc = "order" /\ req'[c].pc = "idle"
      ]_vars

\* C5: every order created has quantity_ordered > 0 and at most the quantity
\* stored for its snack immediately before the commit that created it.
C5_OrderWithinStoredStock ==
    [][Len(orders') > Len(orders) =>
          LET new_order == orders'[Len(orders')] IN
            /\ new_order.quantity_ordered > 0
            /\ new_order.snack_id \in DOMAIN snacks
            /\ new_order.quantity_ordered <= snacks[new_order.snack_id].quantity
      ]_vars

\* C6: an order request answered with one of the two refusals of lines 166 and
\* 170 leaves every snack and every order as they were.
C6_RefusedOrderChangesNothing ==
    [][\A c \in Clients :
          (\/ Answers(c, "order", "Invalid quantity.")
           \/ Answers(c, "order", "Invalid quantity selected or quantity exceeds stock."))
          => snacks' = snacks /\ orders' = orders
      ]_vars

\* C6, its case: an order of 8 was placed from the stock of 15 and the next
\* request was refused, with the stock still at 7.
C6_RefusedAfterAnOrder ==
    /\ flashed = "Invalid quantity selected or quantity exceeds stock."
    /\ Len(orders) = 1
    /\ 1 \in DOMAIN snacks
    /\ snacks[1].quantity = 7

\* C7: a delete_snack request that ends while no Pending order references its
\* snack has removed the snack, and a snack is removed only while no Pending
\* order references it.
C7_DeleteIffNoPendingOrder ==
    [][/\ \A c \in Clients :
            (/\ req[c].pc \in {"delete", "delete_commit"}
             /\ req'[c].pc = "idle"
             /\ ~HasPendingOrder(req[c].snack_id))
            => req[c].snack_id \notin DOMAIN snacks'
       /\ \A snack_id \in DOMAIN snacks \ DOMAIN snacks' : ~HasPendingOrder(snack_id)
      ]_vars

\* C8: every order's snack_id is the id of a stored snack.
C8_OrdersReferenceSnacks ==
    \A i \in DOMAIN orders : orders[i].snack_id \in DOMAIN snacks

\* C9: complete_order answers with its success message only when it has moved
\* an order from Pending to Completed; a call on an order that is already
\* Completed is not reported as a success.
C9_SecondCompleteIsAFailure ==
    [][(flashed' = "Order completed!" /\ flashed # "Order completed!") =>
          \E i \in DOMAIN orders :
              orders[i].status = "Pending" /\ orders'[i].status = "Completed"
      ]_vars

\* C10: orders are never removed or rewritten, a new order is Pending, every
\* status is Pending or Completed, and a Completed order stays Completed.
C10_OrderLifecycleMonotonic ==
    [][/\ Len(orders') >= Len(orders)
       /\ \A i \in DOMAIN orders :
            /\ orders'[i].snack_id = orders[i].snack_id
            /\ orders'[i].quantity_ordered = orders[i].quantity_ordered
            /\ orders'[i].status \in {"Pending", "Completed"}
            /\ orders[i].status = "Completed" => orders'[i].status = "Completed"
       /\ \A i \in DOMAIN orders' \ DOMAIN orders : orders'[i].status = "Pending"
      ]_vars

\* C10, its case: complete_order has moved the first order to Completed while
\* the second order is still Pending.
C10_CompletedBesidePending ==
    /\ flashed = "Order completed!"
    /\ Len(orders) = 2
    /\ orders[1].status = "Completed"
    /\ orders[2].status = "Pending"

\* some order row that both states hold differs in status
StatusChanged ==
    \E order_id \in DOMAIN orders \cap DOMAIN orders' :
        orders'[order_id].status # orders[order_id].status

\* a snack row was created, edited or deleted by something other than an order
SnackManaged == snacks' # snacks /\ Len(orders') = Len(orders)

Refusals ==
    {"Please log in to access this page.", "Access Denied: Admin privileges required."}

\* C11: an order row is added only by the request of a client whose session
\* is logged in; a snack is created, edited or deleted and an order changes
\* status only in a step of a client whose session role is admin; and a
\* step answered by one of the two gate refusals leaves users, snacks and
\* orders as they were.
C11_AccessGate ==
    [][ /\ Len(orders') > Len(orders) =>
              \E c \in Clients : /\ session[c].logged_in = "True"
                                 /\ req[c].pc = "order" /\ req'[c].pc = "idle"
        /\ (SnackManaged \/ StatusChanged) =>
              \E c \in Clients : /\ session[c].role = "admin"
                                 /\ req[c].pc \in {"idle", "manage", "delete_commit"}
                                 /\ req'[c].pc = "idle"
                                 /\ \A d \in Clients \ {c} : req'[d] = req[d]
        /\ (flashed' \in Refusals /\ <<flashed, location>>' # <<flashed, location>>) =>
              UNCHANGED <<users, snacks, orders>> ]_vars

\* a student has ordered, and was then turned away from an admin operation
C11_StudentTurnedAway ==
    /\ \E c \in Clients : session[c].role = "student"
    /\ \A c \in Clients : session[c].role # "admin"
    /\ Len(orders) > 0
    /\ flashed = "Access Denied: Admin privileges required."

\* the submitted credentials are those of a stored user
Registered(username, password) ==
    \E i \in 1..Len(users) :
        /\ users[i].username = username
        /\ users[i].password_hash = generate_password_hash(password)

\* C12: a client's session changes only by a logout, which leaves it empty,
\* or by a login with the name and the password of a stored user; no step
\* that changes a session is a login with an unknown name or a wrong password;
\* and a logout leaves logged_in, username and role of its session absent.
C12_SessionStateMachine ==
    [][\A c \in Clients :
          /\ session'[c] # session[c] =>
                \/ logout(c) /\ session'[c] = EmptySession
                \/ \E username \in LoginNames, password \in LoginPasswords :
                       /\ Registered(username, password)
                       /\ login_post(c, username, password)
                       /\ session'[c].logged_in = "True"
          /\ session' # session =>
                ~\E username \in LoginNames, password \in LoginPasswords :
                     /\ ~Registered(username, password)
                     /\ req[c].pc = "idle" /\ login_post(c, username, password)
          /\ logout(c) => session'[c] = EmptySession ]_vars

\* a failed login has left a student's session in place, and the other
\* client, once logged in, has logged out
C12_FailedLoginKeepsSession ==
    /\ flashed = "Login failed. Check your username and password."
    /\ \E c \in Clients : session[c].role = "student" /\ session[c].logged_in = "True"
    /\ \E c \in Clients : session[c] = EmptySession
    /\ Len(users) = 2

UniqueUsernames ==
    \A i, j \in 1..Len(users) : users[i].username = users[j].username => i = j

\* C13: no two user rows have the same username, before and after every
\* step; the user table changes only by the commit of a registration, which
\* appends one row with the requested "<name>-<room_number>" and the role
\* student, and only when no row had that username; a registration that
\* finds the username present, at its check or at its commit, leaves the
\* table as it was.
C13_RegisterKeepsUsernamesUnique ==
    [][ /\ UniqueUsernames /\ UniqueUsernames'
        /\ users' # users =>
              \E c \in Clients :
                  /\ req[c].pc = "register" /\ req'[c].pc = "idle"
                  /\ filter_by(req[c].username) = {}
                  /\ Len(users') = Len(users) + 1
                  /\ SubSeq(users', 1, Len(users)) = users
                  /\ users'[Len(users')].username = req[c].username
                  /\ users'[Len(users')].role = "student"
        /\ \A c \in Clients :
              (filter_by(req[c].username) # {} /\ Answers(c, "register", flashed'))
                  => users' = users
        /\ (flashed' = "Username already exists. Please choose another."
               /\ <<flashed, location>>' # <<flashed, location>>) => users' = users ]_vars

\* two registrations of one identity interleave: one has committed its row
\* while the other, past its duplicate check, has yet to commit
C13_RegistrationsInterleaved ==
    /\ Len(users) = 2
    /\ flashed = "Registration successful! Please log in."
    /\ \E c \in Clients : req[c].pc = "register" /\ filter_by(req[c].username) # {}

\* the usernames of the rows whose role is admin
AdminNames == {users[i].username : i \in {j \in 1..Len(users) : users[j].role = "admin"}}

\* C14: every step keeps each user row as it is (none is removed, none
\* changes its username, password or role) and adds only rows of role
\* student; so the admin usernames stay those of the initial setup, and a
\* session whose role is admin carries one of these usernames.
C14_UsersImmutable ==
    [][ /\ Len(users') >= Len(users)
        /\ \A i \in 1..Len(users) : users'[i] = users[i]
        /\ \A i \in (Len(users) + 1)..Len(users') : users'[i].role = "student"
        /\ AdminNames = {default_admin.username} /\ AdminNames' = AdminNames
        /\ \A c \in Clients :
              /\ session[c].role = "admin" => session[c].username \in AdminNames
              /\ session'[c].role = "admin" => session'[c].username \in AdminNames' ]_vars

\* a registered student and the admin are both logged in
C14_StudentBesideAdmin ==
    /\ Len(users) = 2
    /\ \E c, d \in Clients : session[c].role = "admin" /\ session[d].role = "student"

\* the responses of complete_order, register, login and logout
StockBystanders ==
    {"Order completed!", "Username already exists. Please choose another.",
     "Registration successful! Please log in.", "Welcome",
     "Login failed. Check your username and password.", "You have been logged out."}

\* C15: the quantity of a snack rises only in the step of a manage_snack
\* request for that snack; a step that adds an order raises no snack's
\* quantity; and a step answered by complete_order, register, login or
\* logout, like the deletion of another snack, leaves quantity and
\* is_available of every snack as they were.
C15_StockNeverRestoredByOrders ==
    [][ /\ \A snack_id \in DOMAIN snacks \cap DOMAIN snacks' :
              /\ snacks'[snack_id].quantity > snacks[snack_id].quantity =>
                    \E c \in Clients : /\ req[c].pc = "manage"
                                       /\ req[c].snack_id = snack_id
                                       /\ req'[c].pc = "idle"
              /\ Len(orders') > Len(orders) =>
                    snacks'[snack_id].quantity <= snacks[snack_id].quantity
              /\ (DOMAIN snacks' # DOMAIN snacks /\ DOMAIN snacks' \subseteq DOMAIN snacks) =>
                    snacks'[snack_id] = snacks[snack_id]
        /\ (flashed' \in StockBystanders
               /\ <<flashed, location>>' # <<flashed, location>>) => snacks' = snacks ]_vars

\* C16: from any state, a login with a username no row has and a login with
\* a stored username and another password than the stored one are the same
\* step: whatever step one of them takes the other takes too, and it is the
\* flash 'Login failed. Check your username and password.', the redirect to
\* login, and nothing else changed, the session included.
C16_LoginFailsUniformly ==
    [][\A c \in Clients :
       \A unknown \in {u \in LoginNames : filter_by(u) = {}} :
       \A known \in {u \in LoginNames : filter_by(u) # {}} :
       \A password \in LoginPasswords :
       \A wrong \in {w \in LoginPasswords : ~Registered(known, w)} :
          /\ login_post(c, unknown, password) <=> login_post(c, known, wrong)
          /\ (login_post(c, unknown, password) \/ login_post(c, known, wrong)) =>
                /\ flashed' = "Login failed. Check your username and password."
                /\ location' = "login"
                /\ req' = [req EXCEPT ![c] = Idle]
                /\ UNCHANGED <<users, snacks, orders, session>> ]_vars

\* a login has failed while nobody is logged in and a student is registered:
\* both an unknown name and a wrong password were there to submit
C16_FailedLoginOfAnonymous ==
    /\ flashed = "Login failed. Check your username and password."
    /\ location = "login"
    /\ \A c \in Clients : session[c] = EmptySession
    /\ Len(users) = 2

\* C17: with the catalogue left alone (OrderSpec: no snack is edited, created
\* or deleted), every stored state has, for each snack, the stock it was
\* seeded with equal to its current quantity plus the sum of quantity_ordered
\* over the orders placed against it.
C17_StockConservation ==
    \A snack_id \in DOMAIN snacks :
        sample_snacks[snack_id].quantity =
            snacks[snack_id].quantity + Ordered(snack_id)

\* C18: in every reachable state each session either has none of logged_in,
\* username and role, or has all three, with logged_in True, username that
\* of a stored user and role the stored role of that user; hence a session
\* that passes admin_required passes login_required.
C18_SessionConsistent ==
    \A c \in Clients :
        /\ \/ session[c] = EmptySession
           \/ /\ session[c].logged_in = "True"
              /\ session[c].username # Absent
              /\ session[c].role # Absent
              /\ filter_by(session[c].username) # {}
              /\ session[c].role = first(filter_by(session[c].username)).role
        /\ admin_required(c) => login_required(c)

\* the admin has logged out while a registered student stays logged in
C18_LoggedOutBesideStudent ==
    /\ flashed = "You have been logged out."
    /\ \E c \in Clients : session[c] = EmptySession
    /\ \E c \in Clients : session[c].role = "student" /\ session[c].username = "alice-101"
====
